---------------------------- MODULE Spec2Model ----------------------------
(***************************************************************************)
(* Model of cordova-plugin-checker.js: the update-check session            *)
(* (checkUpdates / checkPluginUpdates / updatePlugin) as a state machine   *)
(* whose steps are the synchronous stretches of code between two awaits,   *)
(* and the pure helpers (parsePluginList, compareVersions) as operators.   *)
(*                                                                         *)
(* JavaScript strings are modelled as sequences of one-character strings,  *)
(* so that split, trim, replace and Number are computed, not assumed.      *)
(***************************************************************************)
EXTENDS Integers, Sequences, FiniteSets, TLC

VARIABLES
    projectPath,       \* path.resolve(process.argv[2] || '.')
    pathExists,        \* fs.existsSync(projectPath)
    hasConfig,         \* fs.existsSync(projectPath/config.xml)
    cwd,               \* process.cwd(): "orig" or "project"
    pc,                \* the await the session is suspended at
    running,           \* subprocesses started and not yet exited
    installedPlugins,  \* checkPluginUpdates: installedPlugins
    updateResults,     \* checkPluginUpdates: updateResults
    idx,               \* position of the for-of loop over installedPlugins
    pluginsToUpdate,   \* checkUpdates: pluginsToUpdate
    k,                 \* position of the for-of loop over pluginsToUpdate
    rlClosed,          \* number of rl.close() calls
    exitCode,          \* exit status of the process
    log,               \* everything the session did, in order
    currentSegs,       \* comparator run: segments of `current`
    latestSegs,        \* comparator run: segments of `latest`
    cmpPc,             \* comparator run: "input" or "done"
    cmpResult,         \* comparator run: value returned by compareVersions
    parseLines,        \* parser run: the lines of the listing, as they are built
    parsePc,           \* parser run: "input" or "done"
    parseOut           \* parser run: value returned by parsePluginList

vars == <<projectPath, pathExists, hasConfig, cwd, pc, running,
          installedPlugins, updateResults, idx, pluginsToUpdate, k, rlClosed,
          exitCode, log, currentSegs, latestSegs, cmpPc, cmpResult,
          parseLines, parsePc, parseOut>>

sessionVars == <<projectPath, pathExists, hasConfig, cwd, pc, running,
                 installedPlugins, updateResults, idx, pluginsToUpdate, k,
                 rlClosed, exitCode, log>>

cmpVars == <<currentSegs, latestSegs, cmpPc, cmpResult>>

parseVars == <<parseLines, parsePc, parseOut>>

pureVars == <<cmpVars, parseVars>>

-----------------------------------------------------------------------------
(* Bounds *)

\* lines in the output of `cordova plugin list`
MaxLines == 2

\* dot-separated segments of a version string given to the comparator
MaxSegs == 3

-----------------------------------------------------------------------------
(* Strings *)

NL == "\n"

S_unknown == <<"u", "n", "k", "n", "o", "w", "n">>

S_undefined == <<"u", "n", "d", "e", "f", "i", "n", "e", "d">>

S_y == <<"y">>

\* the characters matched by \s and removed by String.prototype.trim
SpaceChars == {" ", "\t", "\n", "\r"}

IsSpace(c) == c \in SpaceChars

RECURSIVE DropLeading(_, _)
\* s without its longest prefix of characters of the set chars
DropLeading(s, chars) ==
    IF s # <<>> /\ Head(s) \in chars THEN DropLeading(Tail(s), chars) ELSE s

RECURSIVE DropTrailingSpace(_)
DropTrailingSpace(s) ==
    IF s # <<>> /\ IsSpace(s[Len(s)])
    THEN DropTrailingSpace(SubSeq(s, 1, Len(s) - 1))
    ELSE s

\* String.prototype.trim
Trim(s) == DropTrailingSpace(DropLeading(s, SpaceChars))

RECURSIVE SplitFrom(_, _, _, _)
SplitFrom(s, sep, piece, acc) ==
    IF s = <<>> THEN Append(acc, piece)
    ELSE IF Head(s) = sep THEN SplitFrom(Tail(s), sep, <<>>, Append(acc, piece))
    ELSE SplitFrom(Tail(s), sep, Append(piece, Head(s)), acc)

\* String.prototype.split with a one-character separator
Split(s, sep) == SplitFrom(s, sep, <<>>, <<>>)

RECURSIVE Join(_, _)
\* Array.prototype.join
Join(parts, sep) ==
    IF parts = <<>> THEN <<>>
    ELSE IF Len(parts) = 1 THEN parts[1]
    ELSE parts[1] \o <<sep>> \o Join(Tail(parts), sep)

LowerOf(c) ==
    CASE c = "Y" -> "y"
      [] c = "E" -> "e"
      [] c = "S" -> "s"
      [] c = "N" -> "n"
      [] c = "O" -> "o"
      [] OTHER -> c

\* String.prototype.toLowerCase
toLowerCase(s) == [j \in 1..Len(s) |-> LowerOf(s[j])]

\* all sequences over S of length lo..hi
SeqsOf(S, lo, hi) == UNION {[1..n -> S] : n \in lo..hi}

-----------------------------------------------------------------------------
(* compareVersions, lines 116-130 *)

DigitChars == {"0", "1", "2", "3", "4", "5", "6", "7", "8", "9"}

DigitVal(c) ==
    CASE c = "0" -> 0 [] c = "1" -> 1 [] c = "2" -> 2 [] c = "3" -> 3
      [] c = "4" -> 4 [] c = "5" -> 5 [] c = "6" -> 6 [] c = "7" -> 7
      [] c = "8" -> 8 [] c = "9" -> 9

RECURSIVE Decimal(_)
Decimal(s) ==
    IF s = <<>> THEN 0
    ELSE 10 * Decimal(SubSeq(s, 1, Len(s) - 1)) + DigitVal(s[Len(s)])

NaN == [nan |-> TRUE, val |-> 0]

Num(n) == [nan |-> FALSE, val |-> n]

\* Number(string) for strings made of digits, letters and white space: white
\* space is trimmed, the empty string is 0, a run of digits is its decimal
\* value, anything else is NaN.
Number(s) ==
    LET t == Trim(s)
    IN  IF t = <<>> THEN Num(0)
        ELSE IF \A j \in 1..Len(t) : t[j] \in DigitChars THEN Num(Decimal(t))
        ELSE NaN

\* a > b with NaN taken for 0
GreaterNaNAsZero(a, b) == a.val > b.val

\* a > b on Numbers: false as soon as one side is NaN
Greater(a, b) == ~a.nan /\ ~b.nan /\ a.val > b.val

\* parts[i] with JavaScript's zero-based index; undefined (converted to NaN
\* by the comparison) past the end
PartAt(parts, i) == IF i + 1 <= Len(parts) THEN parts[i + 1] ELSE NaN

RECURSIVE CompareFromNoLess(_, _, _)
\* the loop of lines 122-129 without the else-if branch of lines 125-127
CompareFromNoLess(currentParts, latestParts, i) ==
    IF i >= 3 THEN FALSE
    ELSE IF Greater(PartAt(latestParts, i), PartAt(currentParts, i)) THEN TRUE
    ELSE CompareFromNoLess(currentParts, latestParts, i + 1)

RECURSIVE CompareFromEqualIsUpdate(_, _, _)
\* the loop of lines 122-129 with `return true` at line 129
CompareFromEqualIsUpdate(currentParts, latestParts, i) ==
    IF i >= 3 THEN TRUE
    ELSE IF Greater(PartAt(latestParts, i), PartAt(currentParts, i)) THEN TRUE
    ELSE IF Greater(PartAt(currentParts, i), PartAt(latestParts, i)) THEN FALSE
    ELSE CompareFromEqualIsUpdate(currentParts, latestParts, i + 1)

RECURSIVE CompareFrom(_, _, _)
\* the for loop of lines 122-129, from index i on
CompareFrom(currentParts, latestParts, i) ==
    IF i >= 3 THEN FALSE
    ELSE IF Greater(PartAt(latestParts, i), PartAt(currentParts, i)) THEN TRUE
    ELSE IF Greater(PartAt(currentParts, i), PartAt(latestParts, i)) THEN FALSE
    ELSE CompareFrom(currentParts, latestParts, i + 1)

NumberParts(s) ==
    LET parts == Split(s, ".") IN [j \in 1..Len(parts) |-> Number(parts[j])]

compareVersions(current, latest) ==
    IF current = S_unknown THEN TRUE
    ELSE CompareFrom(NumberParts(current), NumberParts(latest), 0)

-----------------------------------------------------------------------------
(* parsePluginList, lines 23-41 *)

\* the characters of the class [>\s] of line 30
MarkerChars == {">"} \cup SpaceChars

\* line 25: the lines that are not blank
NonBlankLines(output) == SelectSeq(Split(output, NL), LAMBDA line : Trim(line) # <<>>)

\* lines 30-39 without the replace of line 30
ParseLineNoStrip(line) ==
    LET parts == Split(line, " ")
    IN  [id |-> parts[1],
         version |-> IF Len(parts) >= 2 /\ parts[2] # <<>> THEN parts[2]
                     ELSE S_unknown]

\* lines 30-39 with the version taken from the last piece of the split
ParseLineLastPiece(line) ==
    LET cleanLine == DropLeading(line, MarkerChars)
        parts == Split(cleanLine, " ")
    IN  [id |-> parts[1],
         version |-> IF Len(parts) >= 2 /\ parts[Len(parts)] # <<>>
                     THEN parts[Len(parts)]
                     ELSE S_unknown]

\* lines 30-39: the record of one line
ParseLine(line) ==
    LET cleanLine == DropLeading(line, MarkerChars)
        parts == Split(cleanLine, " ")
    IN  [id |-> parts[1],
         version |-> IF Len(parts) >= 2 /\ parts[2] # <<>> THEN parts[2]
                     ELSE S_unknown]

\* line 40 (and line 83): the ids that are kept
ValidId(id) == id # <<>> /\ id # S_undefined

\* parsePluginList without the filter of line 40
parsePluginListUnfiltered(output) ==
    LET lines == NonBlankLines(output)
    IN  [j \in 1..Len(lines) |-> ParseLine(lines[j])]

parsePluginList(output) ==
    LET lines == NonBlankLines(output)
        records == [j \in 1..Len(lines) |-> ParseLine(lines[j])]
    IN  SelectSeq(records, LAMBDA plugin : ValidId(plugin.id))

-----------------------------------------------------------------------------
(* What the session does, as it is recorded in log *)

NoArg == <<>>

Proc(cmd, arg) == [cmd |-> cmd, arg |-> arg]

EvStart(p) == [ev |-> "start", cmd |-> p.cmd, arg |-> p.arg]

\* out is the subprocess's standard output
EvExit(p, ok, out) ==
    [ev |-> "exit", cmd |-> p.cmd, arg |-> p.arg, ok |-> ok, out |-> out]

EvPrompt(r) ==
    [ev |-> "prompt", plugin |-> r.plugin, currentVersion |-> r.currentVersion,
     latestVersion |-> r.latestVersion]

EvAnswer(text) == [ev |-> "answer", text |-> text]

\* console.log / console.error
EvPrint(msg, arg) == [ev |-> "print", msg |-> msg, arg |-> arg]

IsError(r) == "error" \in DOMAIN r

\* lines 101-105
ErrorResult(plugin) ==
    [plugin |-> plugin.id, currentVersion |-> plugin.version,
     error |-> "Failed to check for updates"]

\* lines 87-98
VersionResult(plugin, npmInfo) ==
    LET latestVersion == Trim(npmInfo)
    IN  [plugin |-> plugin.id, currentVersion |-> plugin.version,
         latestVersion |-> latestVersion,
         hasUpdate |-> compareVersions(plugin.version, latestVersion)]

-----------------------------------------------------------------------------
(* The session: checkUpdates, checkPluginUpdates, updatePlugin *)

\* what the environment can answer
LineSet ==
    {<<"a", " ", "1", ".", "0", ".", "0">>,
     <<">", " ", "b">>,
     <<>>,
     S_undefined \o <<" ", "1", ".", "0", ".", "0">>}

\* the output of `cordova plugin list`: lines, each ended by a newline
ListingOf(lines) == Join(lines \o << <<>> >>, NL)

NpmOutputs ==
    {<<"1", ".", "0", ".", "0", "\n">>, <<"1", ".", "1", ".", "0", "\n">>}

Answers == {<<"y">>, <<"Y">>, <<"n">>, <<"y", "e", "s">>, <<>>}

\* no comparator run
CmpIdle ==
    currentSegs = <<>> /\ latestSegs = <<>> /\ cmpPc = "done" /\ cmpResult = FALSE

\* no parser run
ParseIdle == parseLines = <<>> /\ parsePc = "done" /\ parseOut = <<>>

\* no session
SessionIdle ==
    /\ projectPath = "orig" /\ pathExists = FALSE /\ hasConfig = FALSE
    /\ cwd = "orig"
    /\ pc = "exited" /\ running = {} /\ installedPlugins = <<>>
    /\ updateResults = <<>> /\ idx = 0 /\ pluginsToUpdate = <<>> /\ k = 0
    /\ rlClosed = 0 /\ exitCode = 0 /\ log = <<>>

\* the project path is the working directory ('.', the default) or another
\* directory; the working directory exists
Init ==
    /\ projectPath \in {"orig", "project"}
    /\ pathExists \in {b \in BOOLEAN : projectPath = "orig" => b}
    /\ hasConfig \in {b \in BOOLEAN : b => pathExists}
    /\ cwd = "orig"
    /\ pc = "start"
    /\ running = {}
    /\ installedPlugins = <<>>
    /\ updateResults = <<>>
    /\ idx = 0
    /\ pluginsToUpdate = <<>>
    /\ k = 0
    /\ rlClosed = 0
    /\ exitCode = 0
    /\ log = <<>>
    /\ CmpIdle
    /\ ParseIdle

\* execPromise(...): a subprocess is started and the caller is suspended
Launch(p, at, run, lg) ==
    /\ pc' = at
    /\ running' = run \cup {p}
    /\ log' = Append(lg, EvStart(p))
    /\ UNCHANGED <<rlClosed, exitCode>>

\* the end of checkUpdates without the rl.close() of line 182
FinishNoClose(run, lg) ==
    /\ pc' = "exited"
    /\ running' = run
    /\ rlClosed' = rlClosed
    /\ exitCode' = 0
    /\ log' = lg

\* line 182, after which the process ends with status 0
Finish(run, lg) ==
    /\ pc' = "exited"
    /\ running' = run
    /\ rlClosed' = rlClosed + 1
    /\ exitCode' = 0
    /\ log' = lg

\* the catch of lines 183-187 without process.exit(1)
FatalExitsZero(run, lg) ==
    /\ pc' = "exited"
    /\ running' = run
    /\ rlClosed' = rlClosed + 1
    /\ exitCode' = 0
    /\ log' = Append(lg, EvPrint("fatal", NoArg))

\* lines 110-112 and 183-187
Fatal(run, lg) ==
    /\ pc' = "exited"
    /\ running' = run
    /\ rlClosed' = rlClosed + 1
    /\ exitCode' = 1
    /\ log' = Append(lg, EvPrint("fatal", NoArg))

\* lines 21 and 170-172
question(r, run, lg) ==
    /\ pc' = "awaitAnswer"
    /\ running' = run
    /\ log' = Append(lg, EvPrompt(r))
    /\ UNCHANGED <<rlClosed, exitCode>>

\* lines 169-182: the for-of loop over pluginsToUpdate from position j on
PromptFrom(j, toUpdate, run, lg) ==
    /\ k' = j
    /\ IF j <= Len(toUpdate) THEN question(toUpdate[j], run, lg)
       ELSE Finish(run, lg)

\* lines 146-165: one report line per result
ReportLines(results) ==
    [j \in 1..Len(results) |->
        IF IsError(results[j]) THEN EvPrint("reportError", results[j].plugin)
        ELSE EvPrint(IF results[j].hasUpdate THEN "reportUpdate" ELSE "reportNoUpdate",
                     results[j].plugin)]

\* line 161 without its test of hasUpdate
ToUpdateAll(results) == SelectSeq(results, LAMBDA result : ~IsError(result))

\* lines 146-165: the results collected into pluginsToUpdate
ToUpdate(results) ==
    SelectSeq(results, LAMBDA result : ~IsError(result) /\ result.hasUpdate)

\* lines 141-182 with the message of line 179 kept for a report without errors
ReportQuietOnErrors(results, run, lg) ==
    LET toUpdate == ToUpdate(results)
        lg2 == Append(lg, EvPrint("header", NoArg)) \o ReportLines(results)
    IN  /\ pluginsToUpdate' = toUpdate
        /\ IF Len(toUpdate) > 0 THEN PromptFrom(1, toUpdate, run, lg2)
           ELSE /\ k' = 0
                /\ Finish(run,
                          IF \E j \in 1..Len(results) : IsError(results[j]) THEN lg2
                          ELSE Append(lg2, EvPrint("allUpToDate", NoArg)))

\* lines 141-182: checkUpdates once checkPluginUpdates has returned
Report(results, run, lg) ==
    LET toUpdate == ToUpdate(results)
        lg2 == Append(lg, EvPrint("header", NoArg)) \o ReportLines(results)
    IN  /\ pluginsToUpdate' = toUpdate
        /\ IF Len(toUpdate) > 0 THEN PromptFrom(1, toUpdate, run, lg2)
           ELSE /\ k' = 0
                /\ Finish(run, Append(lg2, EvPrint("allUpToDate", NoArg)))

RECURSIVE NextLookup(_, _)
\* line 83: the first position from j on whose plugin is looked up
NextLookup(plugins, j) ==
    IF j <= Len(plugins) /\ ~ValidId(plugins[j].id) THEN NextLookup(plugins, j + 1)
    ELSE j

\* lines 81-109: the for-of loop over installedPlugins from position j on
LookupFrom(j, plugins, results, run, lg) ==
    LET n == NextLookup(plugins, j)
    IN  /\ idx' = n
        /\ IF n <= Len(plugins)
           THEN /\ Launch(Proc("view", plugins[n].id), "awaitNpm", run, lg)
                /\ UNCHANGED <<pluginsToUpdate, k>>
           ELSE Report(results, run, lg)

\* the pre-check without the config.xml check of lines 64-67
PreCheckFailsPathOnly == ~pathExists

\* lines 59-67: one of the two checks throws
PreCheckFails == ~pathExists \/ ~hasConfig

\* checkUpdates without the process.chdir of line 71
checkUpdatesNoChdir ==
    /\ pc = "start"
    /\ LET lg == Append(log, EvPrint("checking", NoArg))
       IN  IF PreCheckFails
           THEN Fatal(running, lg)
           ELSE Launch(Proc("list", NoArg), "awaitList", running, lg)
    /\ UNCHANGED <<projectPath, pathExists, hasConfig, cwd, installedPlugins,
                   updateResults, idx, pluginsToUpdate, k>>
    /\ UNCHANGED pureVars

\* lines 132-140 and 56-74: up to the first await
checkUpdates ==
    /\ pc = "start"
    /\ LET lg == Append(log, EvPrint("checking", NoArg))
       IN  IF PreCheckFails
           THEN /\ Fatal(running, lg)
                /\ UNCHANGED cwd
           ELSE /\ cwd' = projectPath
                /\ Launch(Proc("list", NoArg), "awaitList", running, lg)
    /\ UNCHANGED <<projectPath, pathExists, hasConfig, installedPlugins, updateResults, idx,
                   pluginsToUpdate, k>>
    /\ UNCHANGED pureVars

\* lines 74-81: `cordova plugin list` has exited
ListExit ==
    /\ pc = "awaitList"
    /\ \E p \in running :
        /\ p.cmd = "list"
        /\ \/ /\ Fatal(running \ {p}, Append(log, EvExit(p, FALSE, <<>>)))
              /\ UNCHANGED <<installedPlugins, updateResults, idx, pluginsToUpdate, k>>
           \/ \E lines \in SeqsOf(LineSet, 0, MaxLines) :
                LET plugins == parsePluginList(ListingOf(lines))
                IN  /\ installedPlugins' = plugins
                    /\ updateResults' = <<>>
                    /\ LookupFrom(1, plugins, <<>>, running \ {p},
                                  Append(log, EvExit(p, TRUE, ListingOf(lines))))
    /\ UNCHANGED <<projectPath, pathExists, hasConfig, cwd>>
    /\ UNCHANGED pureVars

\* a lookup without its own try/catch: the failure reaches line 110
LookupFailedAborts(plugin, run, lg) ==
    /\ Fatal(run, lg)
    /\ UNCHANGED <<updateResults, idx, pluginsToUpdate, k>>

\* lines 99-106: the catch block of one lookup, then the next iteration
LookupFailed(plugin, run, lg) ==
    LET results == Append(updateResults, ErrorResult(plugin))
    IN  /\ updateResults' = results
        /\ LookupFrom(idx + 1, installedPlugins, results, run,
                      Append(lg, EvPrint("lookupError", plugin.id)))

\* lines 86-98: the lookup's output made a result, then the next iteration
LookupDone(plugin, npmInfo, run, lg) ==
    LET results == Append(updateResults, VersionResult(plugin, npmInfo))
    IN  /\ updateResults' = results
        /\ LookupFrom(idx + 1, installedPlugins, results, run, lg)

\* lines 86-107: `npm view <id> version` has exited
NpmExit ==
    /\ pc = "awaitNpm"
    /\ \E p \in running :
        /\ p.cmd = "view"
        /\ \/ LookupFailed(installedPlugins[idx], running \ {p},
                           Append(log, EvExit(p, FALSE, <<>>)))
           \/ \E npmInfo \in NpmOutputs :
                LookupDone(installedPlugins[idx], npmInfo, running \ {p},
                           Append(log, EvExit(p, TRUE, npmInfo)))
    /\ UNCHANGED <<projectPath, pathExists, hasConfig, cwd, installedPlugins>>
    /\ UNCHANGED pureVars

\* line 174 with a test of the first letter only
AcceptedFirstLetter(answer) == answer # <<>> /\ LowerOf(answer[1]) = "y"

\* line 174
Accepted(answer) == toLowerCase(answer) = S_y

\* updatePlugin without the await of line 46: add starts with remove running
updatePluginNoAwait(pluginId, run, lg) ==
    /\ pc' = "awaitRemove"
    /\ running' = run \cup {Proc("remove", pluginId), Proc("add", pluginId)}
    /\ log' = lg \o <<EvPrint("updating", pluginId),
                        EvStart(Proc("remove", pluginId)),
                        EvStart(Proc("add", pluginId))>>
    /\ UNCHANGED <<rlClosed, exitCode>>

\* line 175 without its await: the loop goes on while remove is running
updatePluginUnawaited(pluginId, run, lg) ==
    LET lg2 == lg \o <<EvPrint("updating", pluginId),
                        EvStart(Proc("remove", pluginId))>>
    IN  /\ pc' = "awaitAnswer"
        /\ running' = run \cup {Proc("remove", pluginId)}
        /\ log' = IF k < Len(pluginsToUpdate)
                  THEN Append(lg2, EvPrompt(pluginsToUpdate[k + 1]))
                  ELSE lg2
        /\ UNCHANGED <<rlClosed, exitCode>>

\* lines 43-46: updatePlugin up to its first await
updatePlugin(pluginId, run, lg) ==
    Launch(Proc("remove", pluginId), "awaitRemove", run,
           Append(lg, EvPrint("updating", pluginId)))

\* updatePlugin without its try/catch: a failed remove reaches line 183
AfterRemoveThrows(p, ok, run, lg) ==
    IF ok
    THEN /\ Launch(Proc("add", p.arg), "awaitAdd", run, lg)
         /\ UNCHANGED k
    ELSE /\ Fatal(run, lg)
         /\ UNCHANGED k

\* updatePlugin with the failure of remove ignored: add is started anyway
AfterRemoveAlwaysAdds(p, ok, run, lg) ==
    /\ Launch(Proc("add", p.arg), "awaitAdd", run, lg)
    /\ UNCHANGED k

\* lines 46-53: `cordova plugin remove` has exited
AfterRemove(p, ok, run, lg) ==
    IF ok
    THEN /\ Launch(Proc("add", p.arg), "awaitAdd", run, lg)
         /\ UNCHANGED k
    ELSE PromptFrom(k + 1, pluginsToUpdate, run,
                    Append(lg, EvPrint("updateFailed", p.arg)))

\* updatePlugin with a second attempt of add after a failed add
AfterAddRetries(p, ok, run, lg) ==
    IF ok
    THEN PromptFrom(k + 1, pluginsToUpdate, run, Append(lg, EvPrint("updated", p.arg)))
    ELSE /\ Launch(Proc("add", p.arg), "awaitRemove", run, lg)
         /\ UNCHANGED k

\* lines 47-53: `cordova plugin add` has exited
AfterAdd(p, ok, run, lg) ==
    PromptFrom(k + 1, pluginsToUpdate, run,
               Append(lg, EvPrint(IF ok THEN "updated" ELSE "updateFailed", p.arg)))

\* lines 170-176: the operator has answered the prompt
Answer ==
    /\ pc = "awaitAnswer"
    /\ \E answer \in Answers :
        LET lg == Append(log, EvAnswer(answer))
        IN  IF Accepted(answer)
            THEN /\ updatePlugin(pluginsToUpdate[k].plugin, running, lg)
                 /\ UNCHANGED k
            ELSE PromptFrom(k + 1, pluginsToUpdate, running, lg)
    /\ UNCHANGED <<projectPath, pathExists, hasConfig, cwd, installedPlugins, updateResults,
                   idx, pluginsToUpdate>>
    /\ UNCHANGED pureVars

RemoveExit ==
    /\ pc = "awaitRemove"
    /\ \E p \in running :
        /\ p.cmd = "remove"
        /\ \E ok \in BOOLEAN :
            AfterRemove(p, ok, running \ {p}, Append(log, EvExit(p, ok, <<>>)))
    /\ UNCHANGED <<projectPath, pathExists, hasConfig, cwd, installedPlugins, updateResults,
                   idx, pluginsToUpdate>>
    /\ UNCHANGED pureVars

AddExit ==
    /\ pc = "awaitAdd"
    /\ \E p \in running :
        /\ p.cmd = "add"
        /\ \E ok \in BOOLEAN :
            AfterAdd(p, ok, running \ {p}, Append(log, EvExit(p, ok, <<>>)))
    /\ UNCHANGED <<projectPath, pathExists, hasConfig, cwd, installedPlugins, updateResults,
                   idx, pluginsToUpdate>>
    /\ UNCHANGED pureVars

Next ==
    \/ checkUpdates
    \/ ListExit
    \/ NpmExit
    \/ Answer
    \/ RemoveExit
    \/ AddExit

\* every subprocess that was started exits, and every prompt is answered
Fairness == WF_vars(Next)

FairSpec == Init /\ [][Next]_vars /\ Fairness

Spec == Init /\ [][Next]_vars

-----------------------------------------------------------------------------
(* Properties of the session *)

\* the events of log that satisfy a test, by kind
Prompts == SelectSeq(log, LAMBDA e : e.ev = "prompt")

ViewStarts == SelectSeq(log, LAMBDA e : e.ev = "start" /\ e.cmd = "view")

ViewExits == SelectSeq(log, LAMBDA e : e.ev = "exit" /\ e.cmd = "view")

IsStartOf(e, cmds) == e.ev = "start" /\ e.cmd \in cmds

IsExitOf(e, cmds) == e.ev = "exit" /\ e.cmd \in cmds

IsPrint(e, msg) == e.ev = "print" /\ e.msg = msg

\* the number of positions 1..n of log that hold a prompt
PromptsUpTo(n) == Cardinality({m \in 1..n : log[m].ev = "prompt"})

\* the position of the first prompt after position n, or the end of log
NextPromptAfter(n) ==
    IF \E q \in (n + 1)..Len(log) : log[q].ev = "prompt"
    THEN CHOOSE q \in (n + 1)..Len(log) :
            /\ log[q].ev = "prompt"
            /\ \A r \in (n + 1)..(q - 1) : log[r].ev # "prompt"
    ELSE Len(log) + 1

\* checkPluginUpdates has returned to checkUpdates (line 141 was reached)
CheckReturned == \E n \in 1..Len(log) : IsPrint(log[n], "header")

FatalError == \E n \in 1..Len(log) : IsPrint(log[n], "fatal")

\* the sequence of results the operator is to be asked about
Eligible ==
    SelectSeq(updateResults, LAMBDA r : "hasUpdate" \in DOMAIN r /\ r.hasUpdate = TRUE)

\* C1: a failed registry lookup never aborts the check pass: the plugin whose
\* lookup failed gets a result that carries the error and neither
\* latestVersion nor hasUpdate, and the lookup of every later plugin of the
\* listing is still invoked.
C1_LookupFailureContinues ==
    \A j \in 1..Len(ViewExits) :
        ~ViewExits[j].ok =>
            /\ ~FatalError
            /\ j <= Len(updateResults)
            /\ DOMAIN updateResults[j] = {"plugin", "currentVersion", "error"}
            /\ updateResults[j].plugin = installedPlugins[j].id
            /\ updateResults[j].plugin = ViewExits[j].arg
            /\ \A m \in (j + 1)..Len(installedPlugins) :
                \/ /\ m <= Len(ViewStarts)
                   /\ ViewStarts[m].arg = installedPlugins[m].id
                \/ /\ pc = "awaitNpm"
                   /\ idx < m

\* the first lookup failed, the second was made and succeeded
C1_Witness ==
    /\ Len(ViewExits) >= 2
    /\ ~ViewExits[1].ok
    /\ ViewExits[2].ok
    /\ Len(updateResults) >= 2
    /\ IsError(updateResults[1])
    /\ ~IsError(updateResults[2])

\* C2: when checkPluginUpdates has returned, there is exactly one result per
\* plugin that parsePluginList produced, in listing order, whether the lookup
\* succeeded or failed.
C2_OneResultPerPlugin ==
    CheckReturned =>
        /\ Len(updateResults) = Len(installedPlugins)
        /\ \A j \in 1..Len(installedPlugins) :
            /\ updateResults[j].plugin = installedPlugins[j].id
            /\ updateResults[j].currentVersion = installedPlugins[j].version

\* two plugins were listed, the first lookup failed and the second succeeded
C2_Witness ==
    /\ CheckReturned
    /\ Len(installedPlugins) = 2
    /\ Len(updateResults) = 2
    /\ IsError(updateResults[1])
    /\ ~IsError(updateResults[2])

\* C3: when the project path does not exist or holds no config.xml, the
\* session ends in a fatal error with exit code 1, no subprocess is ever
\* started and no prompt is ever issued.
C3_PreCheckFatal ==
    (~pathExists \/ ~hasConfig) =>
        /\ pc \in {"start", "exited"}
        /\ pc = "exited" => (exitCode = 1 /\ FatalError)
        /\ running = {}
        /\ \A n \in 1..Len(log) : log[n].ev \notin {"start", "exit", "prompt", "answer"}

\* the path exists, config.xml does not, and the session has ended
C3_Witness ==
    /\ pathExists
    /\ ~hasConfig
    /\ pc = "exited"
    /\ exitCode = 1

\* C4: at most one subprocess is in flight: no subprocess is started before
\* the one started before it has exited.
C4_OneSubprocess ==
    /\ Cardinality(running) <= 1
    /\ \A n \in 0..Len(log) :
        LET started == Cardinality({m \in 1..n : log[m].ev = "start"})
            exited == Cardinality({m \in 1..n : log[m].ev = "exit"})
        IN  started - exited \in {0, 1}
    /\ Cardinality(running) =
        Cardinality({m \in 1..Len(log) : log[m].ev = "start"})
            - Cardinality({m \in 1..Len(log) : log[m].ev = "exit"})

\* an add is running, after the list, a lookup and the remove have run
C4_Witness ==
    /\ \E p \in running : p.cmd = "add"
    /\ \E n \in 1..Len(log) : IsExitOf(log[n], {"remove"})
    /\ \E n \in 1..Len(log) : IsExitOf(log[n], {"view"})
    /\ \E n \in 1..Len(log) : IsExitOf(log[n], {"list"})

\* the answers that are a case-insensitive "y"
YesAnswers == {<<"y">>, <<"Y">>}

\* C5: after an answer that is not a case-insensitive "y", neither remove nor
\* add is invoked for that plugin: what follows is the prompt of the next
\* eligible plugin, or the end of the session when there is none.
C5_DeclinedPromptSkips ==
    \A n \in 1..Len(log) :
        (log[n].ev = "answer" /\ log[n].text \notin YesAnswers) =>
            LET m == PromptsUpTo(n)
            IN  IF m < Len(pluginsToUpdate)
                THEN /\ n < Len(log)
                     /\ log[n + 1] = EvPrompt(pluginsToUpdate[m + 1])
                ELSE /\ n = Len(log)
                     /\ pc = "exited"
                     /\ exitCode = 0

\* "yes" was answered to the first prompt and the second prompt followed, and
\* "n" to the last prompt, which ended the session
C5_Witness ==
    /\ pc = "exited"
    /\ \E n \in 1..Len(log) :
        /\ log[n] = EvAnswer(<<"y", "e", "s">>)
        /\ n < Len(log)
        /\ log[n + 1].ev = "prompt"
    /\ log[Len(log)] = EvAnswer(<<"n">>)

\* C6: a failed remove or add never aborts the interactive stage: the failure
\* is logged, the next eligible plugin is prompted, and a session that has
\* ended has prompted every eligible plugin and has exit code 0.
C6_UpdateFailureContinues ==
    \A n \in 1..Len(log) :
        (IsExitOf(log[n], {"remove", "add"}) /\ ~log[n].ok) =>
            LET m == PromptsUpTo(n)
            IN  /\ ~FatalError
                /\ exitCode = 0
                /\ n < Len(log)
                /\ log[n + 1] = EvPrint("updateFailed", log[n].arg)
                /\ IF m < Len(Eligible)
                   THEN /\ n + 2 <= Len(log)
                        /\ log[n + 2] = EvPrompt(Eligible[m + 1])
                   ELSE /\ n + 1 = Len(log)
                        /\ pc = "exited"
                /\ pc = "exited" => Len(Prompts) = Len(Eligible)

\* the remove of the first update failed, the add of the second failed, and
\* the session has ended
C6_Witness ==
    /\ pc = "exited"
    /\ exitCode = 0
    /\ Len(Prompts) >= 2
    /\ \E n \in 1..Len(log) :
        /\ IsExitOf(log[n], {"remove"})
        /\ ~log[n].ok
        /\ \E q \in (n + 1)..Len(log) : IsExitOf(log[q], {"add"}) /\ ~log[q].ok

\* C7: an accepted prompt starts the forced remove of the prompted plugin,
\* and no other; add is started only right after the remove of the same
\* plugin has exited successfully; between an accepted prompt and the next
\* prompt there is exactly one remove and at most one add.
C7_RemoveThenAdd ==
    /\ \A n \in 1..Len(log) :
        IsStartOf(log[n], {"add"}) =>
            /\ n > 1
            /\ log[n - 1] = EvExit(Proc("remove", log[n].arg), TRUE, <<>>)
    /\ \A n \in 1..Len(log) :
        IsStartOf(log[n], {"remove"}) =>
            /\ n > 3
            /\ log[n - 2].ev = "answer"
            /\ log[n - 2].text \in YesAnswers
            /\ log[n - 3].ev = "prompt"
            /\ log[n - 3].plugin = log[n].arg
    /\ \A n \in 1..Len(log) :
        (log[n].ev = "answer" /\ log[n].text \in YesAnswers) =>
            LET q == NextPromptAfter(n)
                removes == {r \in (n + 1)..(q - 1) : IsStartOf(log[r], {"remove"})}
                adds == {r \in (n + 1)..(q - 1) : IsStartOf(log[r], {"add"})}
            IN  /\ Cardinality(removes) = 1
                /\ Cardinality(adds) <= 1
                /\ \A r \in removes : \A a \in adds : r < a

\* one accepted update whose remove failed, so that no add followed, and one
\* whose remove succeeded and whose add followed
C7_Witness ==
    /\ pc = "exited"
    /\ \E n \in 1..Len(log) :
        /\ IsExitOf(log[n], {"remove"})
        /\ ~log[n].ok
    /\ \E n \in 1..Len(log) : IsStartOf(log[n], {"add"})

\* C10: the interactive stage prompts exactly the results with hasUpdate =
\* true, each once and in result order; a result with a lookup error is never
\* prompted and no remove or add is invoked for it, while the results with an
\* update of the same session are prompted all the same.
C10_PromptsAreEligible ==
    /\ Len(Prompts) <= Len(Eligible)
    /\ \A j \in 1..Len(Prompts) : Prompts[j] = EvPrompt(Eligible[j])
    /\ (pc = "exited" /\ CheckReturned) => Len(Prompts) = Len(Eligible)
    /\ Len(Prompts) > 0 => CheckReturned
    /\ \A n \in 1..Len(log) :
        IsStartOf(log[n], {"remove", "add"}) =>
            LET m == PromptsUpTo(n)
            IN  /\ m >= 1
                /\ log[n].arg = Eligible[m].plugin

\* a session that has ended, with a failed lookup and a result with an
\* update, which alone was prompted and updated
C10_Witness ==
    /\ pc = "exited"
    /\ Len(updateResults) = 2
    /\ IsError(updateResults[1])
    /\ ~IsError(updateResults[2]) /\ updateResults[2].hasUpdate
    /\ Len(Prompts) = 1
    /\ Prompts[1].plugin = updateResults[2].plugin
    /\ \E n \in 1..Len(log) : IsStartOf(log[n], {"add"})

Answered == SelectSeq(log, LAMBDA e : e.ev = "answer")

\* the position of the last prompt before position n (there is one)
LastPromptBefore(n) ==
    CHOOSE q \in 1..(n - 1) :
        /\ log[q].ev = "prompt"
        /\ \A r \in (q + 1)..(n - 1) : log[r].ev # "prompt"

\* C16: the plugin list has completed before a lookup starts; every lookup
\* has completed before the first prompt; a remove or add is invoked only
\* after its plugin's own prompt was answered "y" and has exited before the
\* next prompt; no prompt is outstanding while a subprocess is running.
C16_StageOrder ==
    /\ \A n \in 1..Len(log) :
        IsStartOf(log[n], {"view"}) =>
            \E m \in 1..(n - 1) : IsExitOf(log[m], {"list"}) /\ log[m].ok
    /\ \A n \in 1..Len(log) :
        log[n].ev = "prompt" =>
            /\ \A m \in 1..Len(log) :
                (IsStartOf(log[m], {"list", "view"}) \/ IsExitOf(log[m], {"list", "view"}))
                    => m < n
            /\ Len(ViewExits) = Len(ViewStarts)
            /\ Len(ViewExits) = Len(installedPlugins)
    /\ \A n \in 1..Len(log) :
        IsStartOf(log[n], {"remove", "add"}) =>
            /\ \E q \in 1..(n - 1) : log[q].ev = "prompt"
            /\ LET q == LastPromptBefore(n)
               IN  /\ log[q].plugin = log[n].arg
                   /\ log[q + 1].ev = "answer"
                   /\ log[q + 1].text \in YesAnswers
            /\ n < Len(log) => (IsExitOf(log[n + 1], {log[n].cmd}) /\ log[n + 1].arg = log[n].arg)
    /\ Len(Prompts) > Len(Answered) => running = {}
    /\ pc = "awaitAnswer" <=> Len(Prompts) > Len(Answered)
    /\ pc = "awaitAnswer" => running = {}

\* a session that went through every stage: list, lookups, a prompt answered
\* "y", remove, add, and the next prompt
C16_Witness ==
    /\ pc = "awaitAnswer"
    /\ Len(Prompts) = 2
    /\ Len(ViewExits) = 2
    /\ \E n \in 1..Len(log) : IsExitOf(log[n], {"add"}) /\ log[n].ok

\* a step is the arrival of what the session is waiting for: the answer to
\* the outstanding prompt, or the exit of the subprocess that is running
StepIsAwaitedEvent ==
    /\ pc # "exited"
    /\ pc # "start" =>
        /\ Len(log') > Len(log)
        /\ LET e == log'[Len(log) + 1]
           IN  IF pc = "awaitAnswer" THEN e.ev = "answer"
               ELSE e.ev = "exit" /\ Proc(e.cmd, e.arg) \in running

\* C17: when every started subprocess exits and every prompt is answered,
\* the session terminates, and rl.close() has been called exactly once when
\* it does, whatever the exit code; a subprocess that never exits or a
\* prompt that is never answered leaves the session where it is, since the
\* only steps are the exit and the answer it waits for.
C17_Termination ==
    /\ <>(pc = "exited")
    /\ [](pc = "exited" => rlClosed = 1)
    /\ [](pc # "exited" => rlClosed = 0)
    /\ [][StepIsAwaitedEvent]_vars

\* a session that has ended normally after two prompts
C17_Witness ==
    /\ pc = "exited"
    /\ exitCode = 0
    /\ rlClosed = 1
    /\ Len(Prompts) = 2

\* the listing names each plugin once
DistinctIds ==
    \A i, j \in 1..Len(installedPlugins) :
        installedPlugins[i].id = installedPlugins[j].id => i = j

\* the plugin is in the project: no remove or add of it has succeeded, or
\* the last one that did is an add
Installed(id) ==
    LET done == {n \in 1..Len(log) :
                    IsExitOf(log[n], {"remove", "add"}) /\ log[n].arg = id /\ log[n].ok}
    IN  done = {} \/ \E n \in done : log[n].cmd = "add" /\ \A m \in done : m <= n

AllUpToDatePrinted == \E n \in 1..Len(log) : IsPrint(log[n], "allUpToDate")

ListFailed == \E n \in 1..Len(log) : IsExitOf(log[n], {"list"}) /\ ~log[n].ok

\* the installed version is a version, and the registry's latest is the same
AtLatest(r) ==
    /\ ~IsError(r)
    /\ r.currentVersion # S_unknown
    /\ r.currentVersion = r.latestVersion

\* C11: when every lookup succeeded and every installed plugin is at its
\* latest version, the session prints "All plugins are up to date!", issues
\* no prompt, invokes no remove or add, and ends with exit code 0.
C11_AllAtLatest ==
    (CheckReturned /\ \A j \in 1..Len(updateResults) : AtLatest(updateResults[j])) =>
        /\ AllUpToDatePrinted
        /\ Len(Prompts) = 0
        /\ \A n \in 1..Len(log) : ~IsStartOf(log[n], {"remove", "add"})
        /\ pc = "exited"
        /\ exitCode = 0
        /\ running = {}

\* two plugins, both at the registry's version 1.0.0
C11_Witness ==
    /\ pc = "exited"
    /\ Len(updateResults) = 2
    /\ \A j \in 1..2 : AtLatest(updateResults[j])
    /\ AllUpToDatePrinted

\* C12: the exit code is 1 exactly when a fatal error occurred (path
\* missing, manifest missing, plugin list failed) and 0 in every other
\* session that has ended; after a failed plugin list no lookup, prompt,
\* remove or add is performed.
C12_ExitCode ==
    /\ pc = "exited" =>
        /\ exitCode \in {0, 1}
        /\ exitCode = 1 <=> (~pathExists \/ ~hasConfig \/ ListFailed)
    /\ pc # "exited" => exitCode = 0
    /\ ListFailed =>
        /\ pc = "exited"
        /\ running = {}
        /\ \A n \in 1..Len(log) :
            /\ ~IsStartOf(log[n], {"view", "remove", "add"})
            /\ log[n].ev \notin {"prompt", "answer"}

\* the path and the manifest are there and the plugin list failed
C12_Witness ==
    /\ pc = "exited"
    /\ exitCode = 1
    /\ pathExists /\ hasConfig
    /\ ListFailed

\* C13: the working directory is changed at most once, to the project path,
\* and is never restored; a session whose pre-check fails leaves it as it
\* was.
C13_WorkingDirectory ==
    /\ (~pathExists \/ ~hasConfig) => cwd = "orig"
    /\ (pathExists /\ hasConfig) => cwd = (IF pc = "start" THEN "orig" ELSE projectPath)

\* the session has ended after a failed update, in the project's directory
C13_Witness ==
    /\ pc = "exited"
    /\ projectPath = "project"
    /\ cwd = "project"
    /\ \E n \in 1..Len(log) : IsExitOf(log[n], {"add"}) /\ ~log[n].ok

\* C19: "All plugins are up to date!" is printed in exactly the sessions
\* where checkPluginUpdates returned and no result has hasUpdate = true,
\* which are the sessions that returned and issue no prompt: so also when
\* every lookup failed or nothing is installed, and never with a prompt or a
\* fatal error.
C19_AllUpToDateMessage ==
    /\ AllUpToDatePrinted <=> (CheckReturned /\ Len(Eligible) = 0)
    /\ AllUpToDatePrinted =>
        /\ Len(Prompts) = 0
        /\ ~FatalError
        /\ pc = "exited"
        /\ exitCode = 0
    /\ CheckReturned => (AllUpToDatePrinted <=> Len(Prompts) = 0)
    /\ Cardinality({n \in 1..Len(log) : IsPrint(log[n], "allUpToDate")}) <= 1

\* two plugins whose lookups both failed, and the message was printed
C19_Witness ==
    /\ AllUpToDatePrinted
    /\ Len(updateResults) = 2
    /\ \A j \in 1..2 : IsError(updateResults[j])

-----------------------------------------------------------------------------
(* The comparator on its own: every pair of version strings built from     *)
(* SegSet, and the sentinel "unknown" as current.                          *)

SegSet == {<<"0">>, <<"2">>, <<"1", "0">>, <<"x">>, <<>>}

VersionSegs == SeqsOf(SegSet, 1, MaxSegs)

InitCmp ==
    /\ currentSegs \in VersionSegs \cup {<<S_unknown>>}
    /\ latestSegs \in VersionSegs \cup {<<S_unknown>>}
    /\ cmpPc = "input"
    /\ cmpResult = FALSE
    /\ SessionIdle
    /\ ParseIdle

Compare ==
    /\ cmpPc = "input"
    /\ cmpResult' = compareVersions(Join(currentSegs, "."), Join(latestSegs, "."))
    /\ cmpPc' = "done"
    /\ UNCHANGED <<currentSegs, latestSegs>>
    /\ UNCHANGED sessionVars
    /\ UNCHANGED parseVars

NextCmp == Compare

SpecCmp == InitCmp /\ [][NextCmp]_vars

-----------------------------------------------------------------------------
(* Properties of the comparator *)

\* the segments that are non-negative integers, and their values
SegValue == (<<"0">> :> 0) @@ (<<"2">> :> 2) @@ (<<"1", "0">> :> 10)

\* the first three segments are there and are non-negative integers
WellFormed(segs) ==
    /\ Len(segs) >= 3
    /\ \A j \in 1..3 : segs[j] \in DOMAIN SegValue

\* strict lexicographic order of the (major, minor, patch) tuples
TupleGreater(l, c) ==
    \/ SegValue[l[1]] > SegValue[c[1]]
    \/ /\ SegValue[l[1]] = SegValue[c[1]]
       /\ \/ SegValue[l[2]] > SegValue[c[2]]
          \/ /\ SegValue[l[2]] = SegValue[c[2]]
             /\ SegValue[l[3]] > SegValue[c[3]]

\* C8: compareVersions is true whenever current is "unknown"; for versions
\* whose first three segments are non-negative integers it is the strict
\* lexicographic comparison of the (major, minor, patch) tuples.
C8_CompareIsTupleOrder ==
    cmpPc = "done" =>
        /\ currentSegs = <<S_unknown>> => cmpResult = TRUE
        /\ (WellFormed(currentSegs) /\ WellFormed(latestSegs)) =>
            cmpResult = TupleGreater(latestSegs, currentSegs)

\* 2.0.10 against 2.2.0: decided by the minor component, against the patch
C8_Witness ==
    /\ cmpPc = "done"
    /\ currentSegs = << <<"2">>, <<"0">>, <<"1", "0">> >>
    /\ latestSegs = << <<"2">>, <<"2">>, <<"0">> >>
    /\ cmpResult = TRUE

\* the value Number gives a segment, for the segments it gives one: the
\* empty segment is 0
NumericValue == SegValue @@ (<<>> :> 0)

\* a segment that is missing, or that Number makes NaN
Malformed(segs, j) == j > Len(segs) \/ segs[j] \notin DOMAIN NumericValue

\* C9 as claimed: with a current version other than "unknown", a malformed
\* segment among the first three of either version always gives "no update".
C9_MalformedAlwaysFalse ==
    (/\ cmpPc = "done"
     /\ currentSegs # <<S_unknown>>
     /\ \E j \in 1..3 : Malformed(currentSegs, j) \/ Malformed(latestSegs, j))
        => cmpResult = FALSE

\* component j has a number on both sides
BothNumeric(c, l, j) ==
    /\ j <= Len(c) /\ c[j] \in DOMAIN NumericValue
    /\ j <= Len(l) /\ l[j] \in DOMAIN NumericValue

\* component j has a number on both sides, and the two differ
Decides(c, l, j) ==
    BothNumeric(c, l, j) /\ NumericValue[l[j]] # NumericValue[c[j]]

\* C9 amended: with a current version other than "unknown", a component at
\* which either segment is missing or converts to NaN never decides the
\* comparison: the result is true exactly when latest is the greater at the
\* first of the three components where both segments are numbers and differ,
\* and it is false when there is no such component.
C9_MalformedComponentSkipped ==
    (cmpPc = "done" /\ currentSegs # <<S_unknown>>) =>
        cmpResult =
            (\E j \in 1..3 :
                /\ Decides(currentSegs, latestSegs, j)
                /\ NumericValue[latestSegs[j]] > NumericValue[currentSegs[j]]
                /\ \A m \in 1..(j - 1) : ~Decides(currentSegs, latestSegs, m))

\* x.0.2 against 2.0.10: the malformed major component is skipped and the
\* patch component decides
C9_Witness ==
    /\ cmpPc = "done"
    /\ currentSegs = << <<"x">>, <<"0">>, <<"2">> >>
    /\ latestSegs = << <<"2">>, <<"0">>, <<"1", "0">> >>
    /\ cmpResult = TRUE

-----------------------------------------------------------------------------
(* The parser on its own: every listing of up to MaxLines lines, each line  *)
(* made of leading markers, an id and what follows the id.                  *)

LinePrefixes == {<<>>, <<">", " ">>, <<" ", "\t">>}

LineIds == {<<"a">>, <<"b">>, S_undefined}

\* nothing, a version, a version after two spaces, a version and a name
LineRests ==
    {<<>>,
     <<" ", "1", ".", "0">>,
     <<" ", " ", "1", ".", "0">>,
     <<" ", "1", ".", "0", " ", "x">>}

\* the lines with an id, and the lines with markers only
LineDescs ==
    [prefix : LinePrefixes, id : LineIds, rest : LineRests]
        \cup [prefix : LinePrefixes, id : {<<>>}, rest : {<<>>}]

TextOfLine(d) == d.prefix \o d.id \o d.rest

TextOfLines(ds) == ListingOf([j \in 1..Len(ds) |-> TextOfLine(ds[j])])

InitParse ==
    /\ parseLines \in SeqsOf(LineDescs, 0, MaxLines)
    /\ parsePc = "input"
    /\ parseOut = <<>>
    /\ SessionIdle
    /\ CmpIdle

Parse ==
    /\ parsePc = "input"
    /\ parseOut' = parsePluginList(TextOfLines(parseLines))
    /\ parsePc' = "done"
    /\ UNCHANGED parseLines
    /\ UNCHANGED sessionVars
    /\ UNCHANGED cmpVars

NextParse == Parse

SpecParse == InitParse /\ [][NextParse]_vars

-----------------------------------------------------------------------------
(* Properties of the parser *)

\* the lines of the listing that name a plugin, in listing order
NamedLines == SelectSeq(parseLines, LAMBDA d : d.id # <<>> /\ d.id # S_undefined)

\* C14: the records come in listing order, one per line whose id is neither
\* empty nor "undefined"; blank lines give no record, leading ">" and white
\* space are stripped before the id, a line with an id only has the version
\* "unknown", and the empty listing gives the empty sequence.
C14_ParserRecords ==
    parsePc = "done" =>
        /\ Len(parseOut) = Len(NamedLines)
        /\ \A j \in 1..Len(parseOut) :
            /\ parseOut[j].id = NamedLines[j].id
            /\ parseOut[j].id # <<>>
            /\ parseOut[j].id # S_undefined
            /\ NamedLines[j].rest = <<>> => parseOut[j].version = S_unknown
        /\ parseLines = <<>> => parseOut = <<>>

\* "> b" and then a line of white space: one record, b at version unknown
C14_Witness ==
    /\ parsePc = "done"
    /\ parseLines = <<[prefix |-> <<">", " ">>, id |-> <<"b">>, rest |-> <<>>],
                      [prefix |-> <<" ", "\t">>, id |-> <<>>, rest |-> <<>>]>>
    /\ parseOut = <<[id |-> <<"b">>, version |-> S_unknown]>>

\* C15 as claimed: the version is all the text after the first space of the
\* cleaned line, also when the line has more than one space.
C15_VersionIsRestOfLine ==
    parsePc = "done" =>
        \A j \in 1..Len(parseOut) :
            /\ j <= Len(NamedLines)
            /\ parseOut[j].id = NamedLines[j].id
            /\ parseOut[j].version =
                (IF NamedLines[j].rest = <<>> THEN S_unknown
                 ELSE Tail(NamedLines[j].rest))

\* s up to its first space
UpToSpace(s) ==
    LET stops == {n \in 1..Len(s) : s[n] = " "}
        stop == IF stops = {} THEN Len(s) + 1
                ELSE CHOOSE n \in stops : \A q \in stops : n <= q
    IN  SubSeq(s, 1, stop - 1)

\* C15 amended: the id is the text before the first space and the version is
\* the text between the first space and the second, what follows the second
\* space being dropped; it is "unknown" when that text is empty (no space,
\* or two spaces in a row).
C15_VersionIsSecondPiece ==
    parsePc = "done" =>
        \A j \in 1..Len(parseOut) :
            /\ j <= Len(NamedLines)
            /\ parseOut[j].id = NamedLines[j].id
            /\ parseOut[j].version =
                (IF NamedLines[j].rest = <<>> \/ UpToSpace(Tail(NamedLines[j].rest)) = <<>>
                 THEN S_unknown
                 ELSE UpToSpace(Tail(NamedLines[j].rest)))

\* "a 1.0 x" gives version 1.0, and "b  1.0" gives version unknown
C15_Witness ==
    /\ parsePc = "done"
    /\ Len(parseOut) = 2
    /\ NamedLines[1].rest = <<" ", "1", ".", "0", " ", "x">>
    /\ parseOut[1].version = <<"1", ".", "0">>
    /\ NamedLines[2].rest = <<" ", " ", "1", ".", "0">>
    /\ parseOut[2].version = S_unknown

=============================================================================
